---- MODULE Spec2Model ----
(***************************************************************************)
(* Fritter: users, freets and upvotes kept in a document store, reached    *)
(* through the freet and upvote routers.  Each request runs its chain of   *)
(* guards in order and then its handler.                                   *)
(* The FreetComponent of the client sends requests and shows the errors    *)
(* as alerts that a timer removes.                                         *)
(*                                                                         *)
(* ObjectIds are modelled as positive integers, the strings the routers    *)
(* and the upvotedFreets lists carry as <<"hex", id>>.                     *)
(***************************************************************************)
EXTENDS Integers, Sequences, FiniteSets, TLC

VARIABLES users, freets, upvotes, nextUserId, nextFreetId, nextUpvoteId, req, res,
          calls, alerts, timers, requests

\* The state of a FreetComponent in the browser.
component == <<alerts, timers, requests>>

store == <<users, freets, upvotes, nextUserId, nextFreetId, nextUpvoteId>>
vars == <<users, freets, upvotes, nextUserId, nextFreetId, nextUpvoteId, req, res,
          calls, alerts, timers, requests>>

\* Bounds of the model: how many freets and upvotes are ever created.
MaxFreets == 2
MaxUpvotes == 2

\* How many requests a FreetComponent sends.
MaxRequests == 3

\* How many requests are followed await by await.
MaxInFlight == 2

\* The accounts of the model: an author and one other user.
UserIds == {1, 2}

----------------------------------------------------------------------------
\* Values

\* ObjectId.toString(): the hexadecimal string of an id.
toString(oid) == <<"hex", oid>>

\* The ObjectId mongoose casts a hexadecimal string to.
ObjectId(s) == s[2]

\* req.session.userId, req.params.x or req.query.x that is not set.
undefined == <<>>

\* next(): the guard passed.
Pass == 0

AdultAge == 18

\* new Date() at the time users sign up, and the birthdays they give.
Today == [year |-> 2022, month |-> 10, date |-> 15]
AdultBirthdays == { [year |-> 2004, month |-> 10, date |-> 15] }
BoundaryBirthdays == AdultBirthdays \cup { [year |-> 2004, month |-> 10, date |-> 16] }
Birthdays == AdultBirthdays \cup { [year |-> 2004, month |-> 10, date |-> 16],
                                   [year |-> 2005, month |-> 3, date |-> 1] }

calculateAge(today, birthday) ==
  LET age == today.year - birthday.year
      month == today.month - birthday.month
  IN IF month < 0 \/ (month = 0 /\ today.date < birthday.date)
       THEN age - 1
       ELSE age

\* Array.prototype.indexOf, 0-based, -1 when x is not in list.
indexOf(list, x) ==
  IF \E i \in 1..Len(list) : list[i] = x
    THEN (CHOOSE i \in 1..Len(list) :
            list[i] = x /\ \A j \in 1..(i - 1) : list[j] # x) - 1
    ELSE -1

\* Array.prototype.splice(start, deleteCount): a negative start counts from
\* the end of the array.
splice(list, start, deleteCount) ==
  LET len == Len(list)
      from == IF start < 0
                THEN (IF len + start < 0 THEN 0 ELSE len + start)
                ELSE (IF start > len THEN len ELSE start)
      cnt == IF deleteCount < 0 THEN 0
             ELSE IF deleteCount > len - from THEN len - from
             ELSE deleteCount
  IN SubSeq(list, 1, from) \o SubSeq(list, from + cnt + 1, len)

\* String.prototype.trim on a string given as the sequence of its characters.
RECURSIVE trimStart(_)
trimStart(str) ==
  IF str # <<>> /\ Head(str) = " " THEN trimStart(Tail(str)) ELSE str

RECURSIVE trimEnd(_)
trimEnd(str) ==
  IF str # <<>> /\ str[Len(str)] = " "
    THEN trimEnd(SubSeq(str, 1, Len(str) - 1))
    ELSE str

trim(str) == trimEnd(trimStart(str))

\* Array.prototype.includes
includes(list, x) == \E i \in 1..Len(list) : list[i] = x

----------------------------------------------------------------------------
\* Data access

UserCollection_findOneByUserId(userId) ==
  IF userId # undefined /\ ObjectId(userId) \in DOMAIN users
    THEN users[ObjectId(userId)]
    ELSE undefined

\* Usernames are opaque values, so the case-insensitive match of the query
\* is equality.
UserCollection_findOneByUsername(username) ==
  IF \E u \in DOMAIN users : users[u].username = username
    THEN users[CHOOSE u \in DOMAIN users : users[u].username = username]
    ELSE undefined

UserCollection_addOne(username, password, birthday) ==
  LET dateJoined == Today
      age == calculateAge(Today, birthday)
      underage == age < AdultAge
      user == [username |-> username, password |-> password,
               dateJoined |-> dateJoined, birthday |-> birthday,
               underage |-> underage, upvotedFreets |-> <<>>]
  IN /\ users' = [i \in DOMAIN users \cup {nextUserId} |->
                    IF i = nextUserId THEN user ELSE users[i]]
     /\ nextUserId' = nextUserId + 1

FreetCollection_findOne(freetId) ==
  IF freetId # undefined /\ ObjectId(freetId) \in DOMAIN freets
    THEN freets[ObjectId(freetId)]
    ELSE undefined

FreetCollection_findAll == DOMAIN freets

FreetCollection_findAllUnflagged == {f \in DOMAIN freets : ~freets[f].selfFlagged}

FreetCollection_findAllByUsername(author) ==
  {f \in DOMAIN freets :
     /\ freets[f].authorId \in DOMAIN users
     /\ users[freets[f].authorId].username = author}

FreetCollection_addOne(authorId, content, flag_responses) ==
  LET freet == [authorId |-> ObjectId(authorId), content |-> content,
                selfFlagged |-> flag_responses # <<>>]
  IN /\ freets' = [i \in DOMAIN freets \cup {nextFreetId} |->
                     IF i = nextFreetId THEN freet ELSE freets[i]]
     /\ nextFreetId' = nextFreetId + 1

FreetCollection_deleteOne(freetId) ==
  freets' = [i \in DOMAIN freets \ {ObjectId(freetId)} |-> freets[i]]

UpvoteCollection_findOne(upvoteId) ==
  IF upvoteId # undefined /\ ObjectId(upvoteId) \in DOMAIN upvotes
    THEN upvotes[ObjectId(upvoteId)]
    ELSE undefined

UpvoteCollection_addOne_listNotSaved(freetId, authorId) ==
  LET upvote == [freetId |-> ObjectId(freetId), authorId |-> ObjectId(authorId)]
  IN /\ users' = users
     /\ upvotes' = [i \in DOMAIN upvotes \cup {nextUpvoteId} |->
                      IF i = nextUpvoteId THEN upvote ELSE upvotes[i]]
     /\ nextUpvoteId' = nextUpvoteId + 1

UpvoteCollection_addOne(freetId, authorId) ==
  LET upvote == [freetId |-> ObjectId(freetId), authorId |-> ObjectId(authorId)]
      author == UserCollection_findOneByUserId(authorId)
      pushed == Append(author.upvotedFreets, freetId)
  IN /\ users' = [users EXCEPT ![ObjectId(authorId)].upvotedFreets = pushed]
     /\ upvotes' = [i \in DOMAIN upvotes \cup {nextUpvoteId} |->
                      IF i = nextUpvoteId THEN upvote ELSE upvotes[i]]
     /\ nextUpvoteId' = nextUpvoteId + 1

UpvoteCollection_deleteOne_listNotSaved(upvoteId, authorId, freetId) ==
  /\ users' = users
  /\ upvotes' = [i \in DOMAIN upvotes \ {ObjectId(upvoteId)} |-> upvotes[i]]

UpvoteCollection_deleteOne(upvoteId, authorId, freetId) ==
  LET author == UserCollection_findOneByUserId(authorId)
      spliced == splice(author.upvotedFreets,
                        indexOf(author.upvotedFreets, toString(freetId)), 1)
  IN /\ users' = [users EXCEPT ![ObjectId(authorId)].upvotedFreets = spliced]
     /\ upvotes' = [i \in DOMAIN upvotes \ {ObjectId(upvoteId)} |-> upvotes[i]]

UpvoteCollection_deleteManyByFreetId(freetId, authorId) ==
  LET author == UserCollection_findOneByUserId(authorId)
      spliced == splice(author.upvotedFreets,
                        indexOf(author.upvotedFreets, freetId), 1)
  IN /\ users' = [users EXCEPT ![ObjectId(authorId)].upvotedFreets = spliced]
     /\ upvotes' = [i \in {j \in DOMAIN upvotes :
                             upvotes[j].freetId # ObjectId(freetId)} |-> upvotes[i]]

----------------------------------------------------------------------------
\* Guards: each returns Pass or the status of the error it sends.

isUserLoggedIn(r) == IF r.session = undefined THEN 403 ELSE Pass

\* The length limit applies to the content after trimming.
isValidFreetContent(r) ==
  IF trim(r.content) = <<>> THEN 400
  ELSE IF Len(trim(r.content)) > 280 THEN 413
  ELSE Pass

isUserAdult(r) ==
  IF UserCollection_findOneByUserId(r.session).underage THEN 403 ELSE Pass

isAuthorExists(r) ==
  IF UserCollection_findOneByUsername(r.author) = undefined THEN 404 ELSE Pass

isFreetExists(r) ==
  IF FreetCollection_findOne(r.freetId) = undefined THEN 404 ELSE Pass

isValidFreetModifier(r) ==
  IF toString(FreetCollection_findOne(r.freetId).authorId) # r.session
    THEN 403
    ELSE Pass

isUpvoteExists(r) ==
  IF UpvoteCollection_findOne(r.upvoteId) = undefined THEN 404 ELSE Pass

isFreetUpvotedbyUser(r) ==
  LET author == UserCollection_findOneByUserId(r.session)
  IN IF includes(author.upvotedFreets, r.freetId) THEN 409 ELSE Pass

isValidUpvoteModifier_anyUser(r) == Pass

isValidUpvoteModifier(r) ==
  LET upvote == UpvoteCollection_findOne(r.upvoteId)
      userId == upvote.authorId
  IN IF r.session # toString(userId) THEN 400 ELSE Pass

Guard(name, r) ==
  CASE name = "isUserLoggedIn" -> isUserLoggedIn(r)
    [] name = "isUserAdult" -> isUserAdult(r)
    [] name = "isValidFreetContent" -> isValidFreetContent(r)
    [] name = "isAuthorExists" -> isAuthorExists(r)
    [] name = "isFreetExists" -> isFreetExists(r)
    [] name = "isValidFreetModifier" -> isValidFreetModifier(r)
    [] name = "isUpvoteExists" -> isUpvoteExists(r)
    [] name = "isFreetUpvotedbyUser" -> isFreetUpvotedbyUser(r)
    [] name = "isValidUpvoteModifier" -> isValidUpvoteModifier(r)

\* Express runs the guards of a route in order; the first one that sends a
\* response ends the request.
RECURSIVE RunChain(_, _)
RunChain(chain, r) ==
  IF chain = <<>>
    THEN Pass
    ELSE LET s == Guard(Head(chain), r)
         IN IF s # Pass THEN s ELSE RunChain(Tail(chain), r)

----------------------------------------------------------------------------
\* Requests and responses

Request(op, session, freetId, upvoteId, author, content) ==
  [op |-> op, session |-> session, freetId |-> freetId,
   upvoteId |-> upvoteId, author |-> author, content |-> content,
   userDetails |-> undefined]

\* res.status(s).json(...): freets holds the ids of the freets in the body.
\* upvotes holds the ids of the upvotes in the body, freet a single freet.
Response(status, body) ==
  [status |-> status, freets |-> body, upvotes |-> {}, freet |-> undefined]

\* What a client can send: no session or the session of a user, and the id
\* of any freet or upvote ever created, deleted since or not.
Sessions == {undefined} \cup {toString(u) : u \in DOMAIN users}
FreetIds == {toString(f) : f \in 1..(nextFreetId - 1)}
UpvoteIds == {toString(v) : v \in 1..(nextUpvoteId - 1)}
\* The username and password user u signs up with.
Username(u) == <<"user", u>>
Password == <<"pw">>
Authors == {Username(u) : u \in UserIds}
NoFlagResponses == {<<>>}
FlagResponses == NoFlagResponses \cup {<<"sensitive">>}
Contents == {<<"h", "i">>}

\* A string of n characters without spaces.
Chars(n) == [i \in 1..n |-> "x"]

\* Contents around the limits: empty, blank, short, padded, of 280 and of 281
\* characters, and of 280 characters between two spaces.
FreetContents ==
  { <<>>, <<" ", " ">>, <<"h", "i">>, <<" ", "h", "i", " ">>, Chars(280),
    Chars(281), <<" ">> \o Chars(280) \o <<" ">> }

\* Two valid contents, one of them padded.
PaddedContents == { <<"h", "i">>, <<" ", "h", "i", " ">> }

\* util.constructRawFreetResponse: the author is shown by username.
constructRawFreetResponse(freet) ==
  [author |-> users[freet.authorId].username, content |-> freet.content,
   selfFlagged |-> freet.selfFlagged]

PostFreetChain_noContentGuard == <<"isUserLoggedIn">>

GetFreetsChain == <<"isAuthorExists">>

GetFreetChain_noAgeGuard == <<"isFreetExists", "isUserLoggedIn">>

GetFreetChain == <<"isFreetExists", "isUserLoggedIn", "isUserAdult">>

PostFreetChain == <<"isUserLoggedIn", "isValidFreetContent">>

DeleteFreetChain == <<"isUserLoggedIn", "isFreetExists", "isValidFreetModifier">>

PostUpvoteChain_existsFirst ==
  <<"isFreetExists", "isUserLoggedIn", "isFreetUpvotedbyUser">>

PostUpvoteChain == <<"isUserLoggedIn", "isFreetExists", "isFreetUpvotedbyUser">>

DeleteUpvoteChain == <<"isUserLoggedIn", "isUpvoteExists", "isValidUpvoteModifier">>

\* A request followed await by await: where it stands, its session and
\* parameter, the user document it holds and the status it answered with.
Call(pc, session, freetId, author, status) ==
  [pc |-> pc, session |-> session, freetId |-> freetId, author |-> author,
   status |-> status]

\* A request of the component: where it stands, the method that sends it and
\* what it has done so far.
ClientRequest(pc, method, log) == [pc |-> pc, method |-> method, log |-> log]

----------------------------------------------------------------------------
\* Operations, each run to completion

Init ==
  /\ users = <<>>
  /\ freets = <<>>
  /\ upvotes = <<>>
  /\ nextUserId = 1
  /\ nextFreetId = 1
  /\ nextUpvoteId = 1
  /\ req = Request("none", undefined, undefined, undefined, undefined, undefined)
  /\ res = Response(Pass, {})
  /\ calls = [p \in 1..MaxInFlight |-> Call("idle", undefined, undefined, undefined, Pass)]
  /\ alerts = <<>>
  /\ timers = <<>>
  /\ requests = [p \in 1..MaxRequests |-> ClientRequest("idle", "none", <<>>)]

\* A user signs up with one of the given birthdays.
AddUser(birthdays) ==
  \E birthday \in birthdays :
    /\ nextUserId \in UserIds
    /\ UserCollection_addOne(Username(nextUserId), Password, birthday)
    /\ req' = Request("POST /users", undefined, undefined, undefined, undefined,
                      undefined)
    /\ res' = Response(201, {})
    /\ UNCHANGED <<freets, upvotes, nextFreetId, nextUpvoteId, calls, component>>

\* GET /freets and GET /freets?author=
GetFreets ==
  \E session \in Sessions, author \in {undefined} \cup Authors :
    LET r == Request("GET /freets", session, undefined, undefined, author,
                     undefined)
        s == RunChain(GetFreetsChain, r)
        underage == IF session # undefined
                      THEN UserCollection_findOneByUserId(session).underage
                      ELSE FALSE
    IN /\ req' = r
       /\ res' = IF author # undefined
                   THEN (IF s # Pass
                           THEN Response(s, {})
                           ELSE Response(200, FreetCollection_findAllByUsername(author)))
                   ELSE (IF underage
                           THEN Response(200, FreetCollection_findAllUnflagged)
                           ELSE Response(200, FreetCollection_findAll))
       /\ UNCHANGED <<store, calls, component>>

\* GET /freets/:freetId
GetFreet ==
  \E session \in Sessions, freetId \in FreetIds :
    LET r == Request("GET /freets/:id", session, freetId, undefined, undefined,
                     undefined)
        s == RunChain(GetFreetChain, r)
    IN /\ req' = r
       /\ res' = IF s # Pass
                   THEN Response(s, {})
                   ELSE [Response(200, {ObjectId(freetId)}) EXCEPT !.freet =
                           constructRawFreetResponse(FreetCollection_findOne(freetId))]
       /\ UNCHANGED <<store, calls, component>>

\* POST /freets storing the content without its leading and trailing spaces.
PostFreet_trimmedContent(contents, flags) ==
  \E session \in Sessions, content \in contents, flag_responses \in flags :
    LET r == Request("POST /freets", session, undefined, undefined, undefined,
                     content)
        s == RunChain(PostFreetChain, r)
    IN /\ req' = r
       /\ UNCHANGED <<calls, component>>
       /\ IF s # Pass
            THEN /\ res' = Response(s, {})
                 /\ UNCHANGED store
            ELSE /\ nextFreetId <= MaxFreets
                 /\ FreetCollection_addOne(session, trim(content), flag_responses)
                 /\ res' = [Response(201, {nextFreetId}) EXCEPT !.freet =
                              constructRawFreetResponse(freets'[nextFreetId])]
                 /\ UNCHANGED <<users, upvotes, nextUserId, nextUpvoteId>>

\* POST /freets with one of the given contents and flag responses
PostFreet(contents, flags) ==
  \E session \in Sessions, content \in contents, flag_responses \in flags :
    LET r == Request("POST /freets", session, undefined, undefined, undefined,
                     content)
        s == RunChain(PostFreetChain, r)
    IN /\ req' = r
       /\ UNCHANGED <<calls, component>>
       /\ IF s # Pass
            THEN /\ res' = Response(s, {})
                 /\ UNCHANGED store
            ELSE /\ nextFreetId <= MaxFreets
                 /\ FreetCollection_addOne(session, content, flag_responses)
                 /\ res' = [Response(201, {nextFreetId}) EXCEPT !.freet =
                              constructRawFreetResponse(freets'[nextFreetId])]
                 /\ UNCHANGED <<users, upvotes, nextUserId, nextUpvoteId>>

\* DELETE /freets/:freetId
DeleteFreet ==
  \E session \in Sessions, freetId \in FreetIds :
    LET r == Request("DELETE /freets/:id", session, freetId, undefined, undefined,
                     undefined)
        s == RunChain(DeleteFreetChain, r)
    IN /\ req' = r
       /\ UNCHANGED <<calls, component>>
       /\ IF s # Pass
            THEN /\ res' = Response(s, {})
                 /\ UNCHANGED store
            ELSE /\ FreetCollection_deleteOne(freetId)
                 /\ UpvoteCollection_deleteManyByFreetId(freetId, session)
                 /\ res' = Response(200, {})
                 /\ UNCHANGED <<nextUserId, nextFreetId, nextUpvoteId>>

\* POST /upvotes/:freetId
PostUpvote ==
  \E session \in Sessions, freetId \in FreetIds :
    LET r == Request("POST /upvotes/:id", session, freetId, undefined, undefined,
                     undefined)
        s == RunChain(PostUpvoteChain, r)
    IN /\ req' = r
       /\ UNCHANGED <<calls, component>>
       /\ IF s # Pass
            THEN /\ res' = Response(s, {})
                 /\ UNCHANGED store
            ELSE /\ nextUpvoteId <= MaxUpvotes
                 /\ UpvoteCollection_addOne(freetId, session)
                 /\ res' = Response(201, {})
                 /\ UNCHANGED <<freets, nextUserId, nextFreetId>>

\* DELETE /upvotes/:upvoteId
DeleteUpvote ==
  \E session \in Sessions, upvoteId \in UpvoteIds :
    LET r == Request("DELETE /upvotes/:id", session, undefined, upvoteId, undefined,
                     undefined)
        s == RunChain(DeleteUpvoteChain, r)
    IN /\ req' = r
       /\ UNCHANGED <<calls, component>>
       /\ IF s # Pass
            THEN /\ res' = Response(s, {})
                 /\ UNCHANGED store
            ELSE LET freetId == UpvoteCollection_findOne(upvoteId).freetId
                 IN /\ UpvoteCollection_deleteOne(upvoteId, session, freetId)
                    /\ res' = Response(200, {})
                    /\ UNCHANGED <<freets, nextUserId, nextFreetId, nextUpvoteId>>

\* Posting, upvoting and deleting.  These operations read neither a user's
\* underage flag nor a freet's selfFlagged marker, so users sign up as adults
\* and freets are posted without flag responses.
NextUpvote ==
  \/ AddUser(AdultBirthdays)
  \/ PostFreet(Contents, NoFlagResponses)
  \/ DeleteFreet
  \/ PostUpvote
  \/ DeleteUpvote

SpecUpvote == Init /\ [][NextUpvote]_vars

\* Posting, deleting and viewing freets, by users of any age and with or
\* without flag responses.  These operations do not read the upvotes.
NextView ==
  \/ AddUser(Birthdays)
  \/ PostFreet(Contents, FlagResponses)
  \/ DeleteFreet
  \/ GetFreets
  \/ GetFreet

SpecView == Init /\ [][NextView]_vars

----------------------------------------------------------------------------
\* POST /upvotes/:freetId, one step per await: other requests run between
\* the steps.

CallRequest(p) ==
  Request("POST /upvotes/:id", calls[p].session, calls[p].freetId, undefined,
          undefined, undefined)

Respond(p, status) ==
  calls' = [calls EXCEPT ![p].pc = "done", ![p].status = status]

Goto(p, pc) == calls' = [calls EXCEPT ![p].pc = pc]

\* The request arrives; isUserLoggedIn reads only the session.
UpvoteStart(p) ==
  \E session \in Sessions, freetId \in FreetIds :
    LET r == Request("POST /upvotes/:id", session, freetId, undefined, undefined,
                     undefined)
        s == isUserLoggedIn(r)
    IN /\ calls[p].pc = "idle"
       /\ calls' = [calls EXCEPT ![p] =
                      IF s # Pass
                        THEN Call("done", session, freetId, undefined, s)
                        ELSE Call("isFreetExists", session, freetId, undefined, Pass)]
       /\ UNCHANGED <<store, req, res, component>>

UpvoteIsFreetExists(p) ==
  LET s == isFreetExists(CallRequest(p))
  IN /\ calls[p].pc = "isFreetExists"
     /\ IF s # Pass THEN Respond(p, s) ELSE Goto(p, "isFreetUpvotedbyUser")
     /\ UNCHANGED <<store, req, res, component>>

UpvoteIsFreetUpvotedbyUser(p) ==
  LET s == isFreetUpvotedbyUser(CallRequest(p))
  IN /\ calls[p].pc = "isFreetUpvotedbyUser"
     /\ IF s # Pass THEN Respond(p, s) ELSE Goto(p, "findOneByUserId")
     /\ UNCHANGED <<store, req, res, component>>

\* addOne reads the author's document and pushes the freet id onto its copy.
UpvoteFindAuthor(p) ==
  LET author == UserCollection_findOneByUserId(calls[p].session)
      pushed == Append(author.upvotedFreets, calls[p].freetId)
  IN /\ calls[p].pc = "findOneByUserId"
     /\ calls' = [calls EXCEPT ![p].pc = "author.save", ![p].author = pushed]
     /\ UNCHANGED <<store, req, res, component>>

\* author.save(): the driver either writes the array of the copy or pushes
\* the new entry onto the stored array.
UpvoteSaveAuthor(p) ==
  LET u == ObjectId(calls[p].session)
  IN /\ calls[p].pc = "author.save"
     /\ \E saved \in {calls[p].author,
                      Append(users[u].upvotedFreets, calls[p].freetId)} :
          users' = [users EXCEPT ![u].upvotedFreets = saved]
     /\ Goto(p, "upvote.save")
     /\ UNCHANGED <<freets, upvotes, nextUserId, nextFreetId, nextUpvoteId, req, res, component>>

\* upvote.save(), then the 201 response.
UpvoteSaveUpvote(p) ==
  LET upvote == [freetId |-> ObjectId(calls[p].freetId),
                 authorId |-> ObjectId(calls[p].session)]
  IN /\ calls[p].pc = "upvote.save"
     /\ nextUpvoteId <= MaxUpvotes
     /\ upvotes' = [i \in DOMAIN upvotes \cup {nextUpvoteId} |->
                      IF i = nextUpvoteId THEN upvote ELSE upvotes[i]]
     /\ nextUpvoteId' = nextUpvoteId + 1
     /\ Respond(p, 201)
     /\ UNCHANGED <<users, freets, nextUserId, nextFreetId, req, res, component>>

NextConc ==
  \/ AddUser(AdultBirthdays)
  \/ PostFreet(Contents, NoFlagResponses)
  \/ \E p \in 1..MaxInFlight :
       \/ UpvoteStart(p)
       \/ UpvoteIsFreetExists(p)
       \/ UpvoteIsFreetUpvotedbyUser(p)
       \/ UpvoteFindAuthor(p)
       \/ UpvoteSaveAuthor(p)
       \/ UpvoteSaveUpvote(p)

SpecConc == Init /\ [][NextConc]_vars

----------------------------------------------------------------------------
\* DELETE /freets/:freetId, one step per await, next to POST /upvotes/:freetId

DeleteCallRequest(p) ==
  Request("DELETE /freets/:id", calls[p].session, calls[p].freetId, undefined,
          undefined, undefined)

\* A guard or the handler reads a document that is gone and throws: the
\* request runs no further and is never answered.
Fail(p) == calls' = [calls EXCEPT ![p].pc = "failed"]

\* The request arrives; isUserLoggedIn reads only the session.
DeleteStart(p) ==
  \E session \in Sessions, freetId \in FreetIds :
    LET r == Request("DELETE /freets/:id", session, freetId, undefined, undefined,
                     undefined)
        s == isUserLoggedIn(r)
    IN /\ calls[p].pc = "idle"
       /\ calls' = [calls EXCEPT ![p] =
                      IF s # Pass
                        THEN Call("done", session, freetId, undefined, s)
                        ELSE Call("delete.isFreetExists", session, freetId,
                                  undefined, Pass)]
       /\ UNCHANGED <<store, req, res, component>>

DeleteIsFreetExists(p) ==
  LET s == isFreetExists(DeleteCallRequest(p))
  IN /\ calls[p].pc = "delete.isFreetExists"
     /\ IF s # Pass THEN Respond(p, s) ELSE Goto(p, "delete.isValidFreetModifier")
     /\ UNCHANGED <<store, req, res, component>>

DeleteIsValidFreetModifier(p) ==
  /\ calls[p].pc = "delete.isValidFreetModifier"
  /\ IF FreetCollection_findOne(calls[p].freetId) = undefined
       THEN Fail(p)
       ELSE LET s == isValidFreetModifier(DeleteCallRequest(p))
            IN IF s # Pass THEN Respond(p, s) ELSE Goto(p, "FreetCollection.deleteOne")
  /\ UNCHANGED <<store, req, res, component>>

\* FreetCollection.deleteOne
DeleteFreetRecord(p) ==
  /\ calls[p].pc = "FreetCollection.deleteOne"
  /\ FreetCollection_deleteOne(calls[p].freetId)
  /\ Goto(p, "delete.findOneByUserId")
  /\ UNCHANGED <<users, upvotes, nextUserId, nextFreetId, nextUpvoteId, req, res,
                 component>>

\* deleteManyByFreetId reads the deleter's document and splices its copy.
DeleteFindAuthor(p) ==
  LET author == UserCollection_findOneByUserId(calls[p].session)
      spliced == splice(author.upvotedFreets,
                        indexOf(author.upvotedFreets, calls[p].freetId), 1)
  IN /\ calls[p].pc = "delete.findOneByUserId"
     /\ calls' = [calls EXCEPT ![p].pc = "delete.author.save", ![p].author = spliced]
     /\ UNCHANGED <<store, req, res, component>>

\* author.save() writes the spliced array.
DeleteSaveAuthor(p) ==
  /\ calls[p].pc = "delete.author.save"
  /\ users' = [users EXCEPT ![ObjectId(calls[p].session)].upvotedFreets =
                 calls[p].author]
  /\ Goto(p, "UpvoteModel.deleteMany")
  /\ UNCHANGED <<freets, upvotes, nextUserId, nextFreetId, nextUpvoteId, req, res,
                 component>>

\* UpvoteModel.deleteMany({freetId}), then the 200 response.
DeleteManyUpvotes(p) ==
  /\ calls[p].pc = "UpvoteModel.deleteMany"
  /\ upvotes' = [i \in {j \in DOMAIN upvotes :
                          upvotes[j].freetId # ObjectId(calls[p].freetId)} |->
                   upvotes[i]]
  /\ Respond(p, 200)
  /\ UNCHANGED <<users, freets, nextUserId, nextFreetId, nextUpvoteId, req, res,
                 component>>

NextRace ==
  \/ AddUser(AdultBirthdays)
  \/ PostFreet(Contents, NoFlagResponses)
  \/ \E p \in 1..MaxInFlight :
       \/ UpvoteStart(p)
       \/ UpvoteIsFreetExists(p)
       \/ UpvoteIsFreetUpvotedbyUser(p)
       \/ UpvoteFindAuthor(p)
       \/ UpvoteSaveAuthor(p)
       \/ UpvoteSaveUpvote(p)
       \/ DeleteStart(p)
       \/ DeleteIsFreetExists(p)
       \/ DeleteIsValidFreetModifier(p)
       \/ DeleteFreetRecord(p)
       \/ DeleteFindAuthor(p)
       \/ DeleteSaveAuthor(p)
       \/ DeleteManyUpvotes(p)

SpecRace == Init /\ [][NextRace]_vars

----------------------------------------------------------------------------
\* GET /upvotes

UpvoteCollection_findAll == DOMAIN upvotes

UpvoteCollection_findAllByUsername(username) ==
  LET author == CHOOSE u \in DOMAIN users : users[u].username = username
  IN {v \in DOMAIN upvotes : upvotes[v].authorId = author}

UpvoteCollection_findAllByFreet(freetId) ==
  {v \in DOMAIN upvotes : upvotes[v].freetId = ObjectId(freetId)}

UpvotesResponse(status, body) == [Response(status, {}) EXCEPT !.upvotes = body]

\* What a registration returns when it hands the request to the next one.
NextRoute == Response(Pass, {})

GetUpvotesChain == <<"isAuthorExists">>

GetUpvotesByFreetChain == <<"isFreetExists">>

\* router.get('/') as registered first: by author when req.query.author is
\* set, all upvotes otherwise.  It answers every request.
GetUpvotesByAuthor(r) ==
  IF r.author # undefined
    THEN LET s == RunChain(GetUpvotesChain, r)
         IN IF s # Pass
              THEN Response(s, {})
              ELSE UpvotesResponse(200, UpvoteCollection_findAllByUsername(r.author))
    ELSE UpvotesResponse(200, UpvoteCollection_findAll)

\* router.get('/') as registered second: by freet when req.query.freetId is
\* set, all upvotes otherwise.
GetUpvotesByFreet(r) ==
  IF r.freetId # undefined
    THEN LET s == RunChain(GetUpvotesByFreetChain, r)
         IN IF s # Pass
              THEN Response(s, {})
              ELSE UpvotesResponse(200, UpvoteCollection_findAllByFreet(r.freetId))
    ELSE UpvotesResponse(200, UpvoteCollection_findAll)

\* Express hands the request to the registrations of the path in order and
\* stops at the first one that answers.  freetId holds req.query.freetId.
GetUpvotes ==
  \E session \in Sessions, author \in {undefined} \cup Authors,
     freetId \in {undefined} \cup FreetIds :
    LET r == Request("GET /upvotes", session, freetId, undefined, author, undefined)
        first == GetUpvotesByAuthor(r)
    IN /\ req' = r
       /\ res' = IF first # NextRoute THEN first ELSE GetUpvotesByFreet(r)
       /\ UNCHANGED <<store, calls, component>>

\* Posting, upvoting and listing the upvotes.
NextList ==
  \/ AddUser(AdultBirthdays)
  \/ PostFreet(Contents, NoFlagResponses)
  \/ PostUpvote
  \/ GetUpvotes

SpecList == Init /\ [][NextList]_vars

----------------------------------------------------------------------------
\* Updating and deleting users

UserCollection_updateOne_passwordAlways(userId, userDetails) ==
  LET user == users[ObjectId(userId)]
      withPassword == [user EXCEPT !.password = userDetails.password]
      withUsername == IF userDetails.username # undefined
                        THEN [withPassword EXCEPT !.username = userDetails.username]
                        ELSE withPassword
  IN users' = [users EXCEPT ![ObjectId(userId)] = withUsername]

\* A detail that is undefined or the empty string is falsy and is skipped.
UserCollection_updateOne(userId, userDetails) ==
  LET user == users[ObjectId(userId)]
      withPassword == IF userDetails.password # undefined
                        THEN [user EXCEPT !.password = userDetails.password]
                        ELSE user
      withUsername == IF userDetails.username # undefined
                        THEN [withPassword EXCEPT !.username = userDetails.username]
                        ELSE withPassword
  IN users' = [users EXCEPT ![ObjectId(userId)] = withUsername]

UserCollection_deleteOne(userId) ==
  users' = [u \in DOMAIN users \ {ObjectId(userId)} |-> users[u]]

UpvoteCollection_deleteManyByAuthorId_listKept(authorId) ==
  /\ users' = users
  /\ upvotes' = [v \in {w \in DOMAIN upvotes :
                          upvotes[w].authorId # ObjectId(authorId)} |-> upvotes[v]]

UpvoteCollection_deleteManyByAuthorId(authorId) ==
  LET author == UserCollection_findOneByUserId(authorId)
  IN /\ users' = IF author # undefined
                   THEN [users EXCEPT ![ObjectId(authorId)].upvotedFreets = <<>>]
                   ELSE users
     /\ upvotes' = [v \in {w \in DOMAIN upvotes :
                             upvotes[w].authorId # ObjectId(authorId)} |-> upvotes[v]]

\* The password and the username a user can change to.
NewPassword == <<"pw2">>
NewUsername(u) == <<"renamed", u>>

UserDetails(u) ==
  [password : {undefined, NewPassword}, username : {undefined, NewUsername(u)}]

\* The ids of the users ever created, deleted since or not.
EverUserIds == {toString(u) : u \in 1..(nextUserId - 1)}

\* The sessions that send updates: the first user to sign up.
Updaters == {toString(u) : u \in DOMAIN users \cap {1}}

\* A logged-in user changes their password, their username, both or neither.
UpdateUser ==
  \E session \in Updaters :
    \E userDetails \in UserDetails(ObjectId(session)) :
      /\ UserCollection_updateOne(session, userDetails)
      /\ req' = [Request("PUT /users", session, undefined, undefined, undefined,
                         undefined) EXCEPT !.userDetails = userDetails]
      /\ res' = Response(200, {})
      /\ UNCHANGED <<freets, upvotes, nextUserId, nextFreetId, nextUpvoteId, calls, component>>

\* The user router is not among the sources: the deletion of a user calls
\* UserCollection.deleteOne and UpvoteCollection.deleteManyByAuthorId in an
\* order the sources do not fix, so each call is a step of its own.
DeleteOne ==
  \E session \in Sessions \ {undefined} :
    /\ UserCollection_deleteOne(session)
    /\ req' = Request("UserCollection.deleteOne", session, undefined, undefined,
                      undefined, undefined)
    /\ res' = Response(Pass, {})
    /\ UNCHANGED <<freets, upvotes, nextUserId, nextFreetId, nextUpvoteId, calls, component>>

DeleteManyByAuthorId ==
  \E authorId \in EverUserIds :
    /\ UpvoteCollection_deleteManyByAuthorId(authorId)
    /\ req' = Request("UpvoteCollection.deleteManyByAuthorId", authorId, undefined,
                      undefined, undefined, undefined)
    /\ res' = Response(Pass, {})
    /\ UNCHANGED <<freets, nextUserId, nextFreetId, nextUpvoteId, calls, component>>

\* Signing up on either side of the age limit, posting, upvoting and updating
\* users.
NextUser ==
  \/ AddUser(BoundaryBirthdays)
  \/ PostFreet(Contents, NoFlagResponses)
  \/ PostUpvote
  \/ UpdateUser

SpecUser == Init /\ [][NextUser]_vars

\* Posting, upvoting and deleting users.
NextCascade ==
  \/ AddUser(AdultBirthdays)
  \/ PostFreet(Contents, NoFlagResponses)
  \/ PostUpvote
  \/ DeleteOne
  \/ DeleteManyByAuthorId

SpecCascade == Init /\ [][NextCascade]_vars

----------------------------------------------------------------------------
\* Posting and fetching freets

\* Posting freets with contents around the limits of the content guard.
NextContent ==
  \/ AddUser(AdultBirthdays)
  \/ PostFreet(FreetContents, NoFlagResponses)

SpecContent == Init /\ [][NextContent]_vars

\* Posting, deleting and fetching single freets, by users on either side of
\* the age limit.
NextRoundTrip ==
  \/ AddUser(BoundaryBirthdays)
  \/ PostFreet(PaddedContents, FlagResponses)
  \/ DeleteFreet
  \/ GetFreet

SpecRoundTrip == Init /\ [][NextRoundTrip]_vars

----------------------------------------------------------------------------
\* FreetComponent: request (sent by deleteFreet) and requestUpvote

\* What the component does not touch: the server.
server == <<store, req, res, calls>>

\* The keys of this.alerts: an Error used as a property name is the string
\* of its name and message.  res.error is an object or a message.
ErrorKeys == {"Error: [object Object]", "Error: message"}
FetchRejected == "TypeError: Failed to fetch"

Methods == {"request", "requestUpvote"}

\* this.$store.commit('refreshFreets') in request, 'refreshUpvotes' in
\* requestUpvote.
Refresh(method) == IF method = "request" THEN "refreshFreets" ELSE "refreshUpvotes"

\* catch (e): this.$set(this.alerts, e, 'error') and a timer that deletes the
\* key.  Every timer has the same delay, so timers fire in the order they were
\* set.  A timer records whether its failure put the alert on display or found
\* it on display.
Catch(p, e) ==
  /\ UNCHANGED server
  /\ alerts' = [k \in DOMAIN alerts \cup {e} |-> "error"]
  /\ timers' = Append(timers, [key |-> e, displayed |-> e \notin DOMAIN alerts])
  /\ requests' = [requests EXCEPT ![p].pc = "done",
                                  ![p].log = Append(@, "error alert")]

\* The user clicks delete or upvote: the method runs up to its await fetch.
Click(p) ==
  \E method \in Methods :
    /\ requests[p].pc = "idle"
    /\ requests' = [requests EXCEPT ![p] = ClientRequest("fetch", method, <<>>)]
    /\ UNCHANGED <<alerts, timers, server>>

\* fetch settles and the refresh is committed before r.ok is read.
FetchSettles_refreshFirst(p) ==
  /\ requests[p].pc = "fetch"
  /\ \/ /\ requests' = [requests EXCEPT
                          ![p].pc = "done",
                          ![p].log = <<Refresh(requests[p].method), "success alert">>]
        /\ UNCHANGED <<alerts, timers, server>>
     \/ /\ requests' = [requests EXCEPT
                          ![p].pc = "r.json",
                          ![p].log = <<Refresh(requests[p].method)>>]
        /\ UNCHANGED <<alerts, timers, server>>
     \/ Catch(p, FetchRejected)

\* fetch settles: with an ok response the refresh is committed and the
\* callback run; otherwise the body is awaited, or fetch itself was rejected.
FetchSettles(p) ==
  /\ requests[p].pc = "fetch"
  /\ \/ /\ requests' = [requests EXCEPT
                          ![p].pc = "done",
                          ![p].log = <<Refresh(requests[p].method), "success alert">>]
        /\ UNCHANGED <<alerts, timers, server>>
     \/ /\ requests' = [requests EXCEPT ![p].pc = "r.json"]
        /\ UNCHANGED <<alerts, timers, server>>
     \/ Catch(p, FetchRejected)

\* r.json() settles and new Error(res.error) is thrown and caught.
JsonSettles(p) ==
  /\ requests[p].pc = "r.json"
  /\ \E e \in ErrorKeys : Catch(p, e)

\* The oldest timer fires: this.$delete(this.alerts, e).
TimerFires ==
  /\ timers # <<>>
  /\ alerts' = [k \in DOMAIN alerts \ {Head(timers).key} |-> "error"]
  /\ timers' = Tail(timers)
  /\ UNCHANGED <<requests, server>>

NextClient ==
  \/ \E p \in 1..MaxRequests :
       \/ Click(p)
       \/ FetchSettles(p)
       \/ JsonSettles(p)
  \/ TimerFires

SpecClient == Init /\ [][NextClient]_vars

\* Timers that are due fire, and fetch and r.json settle.
SpecClientFair ==
  /\ SpecClient
  /\ WF_vars(TimerFires)
  /\ \A p \in 1..MaxRequests : WF_vars(FetchSettles(p)) /\ WF_vars(JsonSettles(p))

\* Once no further request fails, this.alerts becomes and stays empty.
AlertsEventuallyCleared == <>[](alerts = <<>> /\ timers = <<>>)

----------------------------------------------------------------------------
\* Express dispatch: what each function of a route sends and whether it calls
\* next

\* What one middleware function or handler does with a request.
Sends(status) == [sent |-> <<status>>, next |-> FALSE]
Nexts == [sent |-> <<>>, next |-> TRUE]
Neither == [sent |-> <<>>, next |-> FALSE]

\* A guard that fails sends its error and returns; one that passes calls next.
GuardOutcome(name, r) ==
  LET s == Guard(name, r) IN IF s # Pass THEN Sends(s) ELSE Nexts

\* The first and the last function of each route.
HandlerOutcome(name, r) ==
  CASE name = "freets.get" ->
         IF r.author # undefined THEN Nexts ELSE Sends(200)
    [] name = "freets.get.byAuthor" -> Sends(200)
    [] name = "freets.getOne.hasId" ->
         IF r.freetId # undefined THEN Nexts ELSE Neither
    [] name = "freets.getOne" -> Sends(200)
    [] name = "freets.post" -> Sends(201)
    [] name = "freets.delete" -> Sends(200)
    [] name = "upvotes.get" ->
         IF r.author # undefined THEN Nexts ELSE Sends(200)
    [] name = "upvotes.get.byAuthor" -> Sends(200)
    [] name = "upvotes.get.hasFreetId" ->
         IF r.freetId # undefined THEN Nexts ELSE Sends(200)
    [] name = "upvotes.get.byFreet" -> Sends(200)
    [] name = "upvotes.post" -> Sends(201)
    [] name = "upvotes.delete" -> Sends(200)

Handlers ==
  {"freets.get", "freets.get.byAuthor", "freets.getOne.hasId", "freets.getOne",
   "freets.post", "freets.delete", "upvotes.get", "upvotes.get.byAuthor",
   "upvotes.get.hasFreetId", "upvotes.get.byFreet", "upvotes.post",
   "upvotes.delete"}

Outcome(name, r) ==
  IF name \in Handlers THEN HandlerOutcome(name, r) ELSE GuardOutcome(name, r)

\* The functions of one registration run in order while each calls next; next
\* from the last one leaves the registration.
RECURSIVE RunStack(_, _)
RunStack(stack, r) ==
  IF stack = <<>>
    THEN Nexts
    ELSE LET o == Outcome(Head(stack), r)
         IN IF ~o.next
              THEN o
              ELSE LET rest == RunStack(Tail(stack), r)
                   IN [sent |-> o.sent \o rest.sent, next |-> rest.next]

\* A registration: its method, whether its path is '/:id?' or '/', and its
\* functions.
Registration(method, optionalId, stack) ==
  [method |-> method, optionalId |-> optionalId, stack |-> stack]

FreetRegistrations_idFirst ==
  << Registration("GET", TRUE,
                  <<"freets.getOne.hasId">> \o GetFreetChain \o <<"freets.getOne">>),
     Registration("GET", FALSE,
                  <<"freets.get">> \o GetFreetsChain \o <<"freets.get.byAuthor">>),
     Registration("POST", FALSE, PostFreetChain \o <<"freets.post">>),
     Registration("DELETE", TRUE, DeleteFreetChain \o <<"freets.delete">>) >>

\* The freet router, in the order of its registrations.
FreetRegistrations ==
  << Registration("GET", FALSE,
                  <<"freets.get">> \o GetFreetsChain \o <<"freets.get.byAuthor">>),
     Registration("GET", TRUE,
                  <<"freets.getOne.hasId">> \o GetFreetChain \o <<"freets.getOne">>),
     Registration("POST", FALSE, PostFreetChain \o <<"freets.post">>),
     Registration("DELETE", TRUE, DeleteFreetChain \o <<"freets.delete">>) >>

\* The upvote router, in the order of its registrations.
UpvoteRegistrations ==
  << Registration("GET", FALSE,
                  <<"upvotes.get">> \o GetUpvotesChain \o <<"upvotes.get.byAuthor">>),
     Registration("GET", FALSE,
                  <<"upvotes.get.hasFreetId">> \o GetUpvotesByFreetChain
                    \o <<"upvotes.get.byFreet">>),
     Registration("POST", TRUE, PostUpvoteChain \o <<"upvotes.post">>),
     Registration("DELETE", TRUE, DeleteUpvoteChain \o <<"upvotes.delete">>) >>

\* The method of a request, its router, and the id in its path if any. The
\* freet id of GET /upvotes is a query parameter.
Method(r) ==
  CASE r.op \in {"GET /freets", "GET /freets/:id", "GET /upvotes"} -> "GET"
    [] r.op \in {"POST /freets", "POST /upvotes/:id"} -> "POST"
    [] r.op \in {"DELETE /freets/:id", "DELETE /upvotes/:id"} -> "DELETE"

Registrations(r) ==
  IF r.op \in {"GET /upvotes", "POST /upvotes/:id", "DELETE /upvotes/:id"}
    THEN UpvoteRegistrations
    ELSE FreetRegistrations

PathId(r) ==
  CASE r.op \in {"GET /freets/:id", "DELETE /freets/:id", "POST /upvotes/:id"} ->
         r.freetId
    [] r.op = "DELETE /upvotes/:id" -> r.upvoteId
    [] OTHER -> undefined

\* '/' matches a path without an id only, '/:id?' matches with or without.
Matches(reg, r) ==
  /\ reg.method = Method(r)
  /\ reg.optionalId \/ PathId(r) = undefined

\* Express tries the registrations in order: the first that matches runs, and
\* the following ones only if its last function calls next. After the last
\* registration Express itself answers 404.
RECURSIVE Dispatch(_, _)
Dispatch(regs, r) ==
  IF regs = <<>>
    THEN <<404>>
    ELSE IF ~Matches(Head(regs), r)
      THEN Dispatch(Tail(regs), r)
      ELSE LET o == RunStack(Head(regs).stack, r)
           IN IF o.next THEN o.sent \o Dispatch(Tail(regs), r) ELSE o.sent

\* The statuses of the responses sent for a request, in the order sent.
Responses(r) == Dispatch(Registrations(r), r)

\* The ids a request can name: those of the documents created and one more,
\* well formed, that no document has.
RouteFreetIds == FreetIds \cup {toString(nextFreetId)}
RouteUpvoteIds == UpvoteIds \cup {toString(nextUpvoteId)}

\* A content for each outcome of isValidFreetContent: empty, valid, too long.
RouteContents == { <<>>, <<"h", "i">>, Chars(281) }

\* Every request to the two routers: each route with no session or a user's,
\* with its path id missing, of a document that exists or of one that does
\* not, and with its query parameters absent or present.
RouteRequests ==
  {Request("GET /freets", s, undefined, undefined, a, undefined) :
     s \in Sessions, a \in {undefined} \cup Authors}
  \cup {Request("GET /freets/:id", s, f, undefined, undefined, undefined) :
          s \in Sessions, f \in RouteFreetIds}
  \cup {Request("POST /freets", s, undefined, undefined, undefined, c) :
          s \in Sessions, c \in RouteContents}
  \cup {Request("DELETE /freets/:id", s, f, undefined, undefined, undefined) :
          s \in Sessions, f \in {undefined} \cup RouteFreetIds}
  \cup {Request("GET /upvotes", s, f, undefined, a, undefined) :
          s \in Sessions, f \in {undefined, toString(nextFreetId - 1)},
          a \in {undefined} \cup Authors}
  \cup {Request("POST /upvotes/:id", s, f, undefined, undefined, undefined) :
          s \in Sessions, f \in {undefined} \cup RouteFreetIds}
  \cup {Request("DELETE /upvotes/:id", s, undefined, v, undefined, undefined) :
          s \in Sessions, v \in {undefined} \cup RouteUpvoteIds}

\* A request to DELETE /freets/, POST /upvotes/ or DELETE /upvotes/ with no id
\* in its path: a guard rejects it and nothing is written.
NoIdRequest ==
  \E op \in {"DELETE /freets/:id", "POST /upvotes/:id", "DELETE /upvotes/:id"},
     session \in Sessions :
    LET r == Request(op, session, undefined, undefined, undefined, undefined)
    IN /\ req' = r
       /\ res' = Response(Head(Responses(r)), {})
       /\ UNCHANGED <<store, calls, component>>

NextRoutes ==
  \/ AddUser(BoundaryBirthdays)
  \/ PostFreet(Contents, NoFlagResponses)
  \/ PostUpvote
  \/ NoIdRequest

SpecRoutes == Init /\ [][NextRoutes]_vars

----------------------------------------------------------------------------
\* Properties

\* The Upvote records of author u on freet f.
UpvotesOf(u, f) ==
  {v \in DOMAIN upvotes : upvotes[v].authorId = u /\ upvotes[v].freetId = f}

\* How many times x occurs in list.
Occurrences(list, x) == Cardinality({i \in 1..Len(list) : list[i] = x})

\* list without its i-th entry.
RemoveAt(list, i) == SubSeq(list, 1, i - 1) \o SubSeq(list, i + 1, Len(list))

\* C1: after any sequence of requests, each run to completion, no (author,
\* freet) pair has two or more Upvote records.
C1_UpvoteUniqueness ==
  \A u \in DOMAIN users : \A f \in 1..nextFreetId :
    Cardinality(UpvotesOf(u, f)) <= 1

\* C2: between requests, every user's upvotedFreets list holds each freet id
\* exactly as many times as the user has Upvote records on that freet.
C2_ListRecordSync ==
  \A u \in DOMAIN users : \A f \in 1..nextFreetId :
    Occurrences(users[u].upvotedFreets, toString(f)) = Cardinality(UpvotesOf(u, f))

\* C3: once DELETE /freets/:id of freet F has succeeded, no Upvote record
\* references F and F's id is in no user's upvotedFreets list.
C3_FreetDeletionCascade ==
  (req.op = "DELETE /freets/:id" /\ res.status = 200) =>
    /\ \A v \in DOMAIN upvotes : upvotes[v].freetId # ObjectId(req.freetId)
    /\ \A u \in DOMAIN users : ~includes(users[u].upvotedFreets, req.freetId)

\* C4: POST /upvotes/F by a logged-in user who has a live Upvote record on the
\* existing freet F is answered 409 and changes neither the Upvote records nor
\* the user's list.
C4_DuplicateUpvoteRejected ==
  [][(/\ req'.op = "POST /upvotes/:id"
      /\ req'.session # undefined
      /\ ObjectId(req'.freetId) \in DOMAIN freets
      /\ UpvotesOf(ObjectId(req'.session), ObjectId(req'.freetId)) # {})
     => (/\ res'.status = 409
         /\ upvotes' = upvotes
         /\ users' = users)]_vars

\* C5: two POST /upvotes/:freetId requests of the same user for the same
\* freet, interleaved between their store reads and writes, do not both create
\* an Upvote record: the pair never has two records.
C5_ConcurrentDuplicateUpvotes ==
  /\ \A p, q \in 1..MaxInFlight :
       (/\ p # q
        /\ calls[p].session = calls[q].session
        /\ calls[p].freetId = calls[q].freetId
        /\ calls[p].status = 201)
       => calls[q].status # 201
  /\ \A u \in DOMAIN users : \A f \in DOMAIN freets :
       Cardinality(UpvotesOf(u, f)) < 2

\* C6: no freet in the response to GET /freets, with or without the author
\* parameter, is self-flagged when the requester is an underage user.
C6_UnderageListFiltered ==
  (/\ req.op = "GET /freets"
   /\ req.session # undefined
   /\ users[ObjectId(req.session)].underage)
  => \A f \in res.freets : ~freets[f].selfFlagged

\* C7: GET /freets/:id of an existing self-flagged freet by a caller who is
\* not logged in or is underage is answered 403 without the freet; the freet
\* is in the response only when the requester is logged in and not underage.
C7_SingleFreetGate ==
  (/\ req.op = "GET /freets/:id"
   /\ ObjectId(req.freetId) \in DOMAIN freets
   /\ freets[ObjectId(req.freetId)].selfFlagged)
  => LET allowed == /\ req.session # undefined
                    /\ ~users[ObjectId(req.session)].underage
     IN /\ ~allowed => (res.status = 403 /\ res.freets = {})
        /\ res.freets # {} => allowed

C7_Witness ==
  /\ req.op = "GET /freets/:id"
  /\ ObjectId(req.freetId) \in DOMAIN freets
  /\ freets[ObjectId(req.freetId)].selfFlagged
  /\ req.session # undefined
  /\ users[ObjectId(req.session)].underage
  /\ res.status = 403

\* The request of a step is a delete by a logged-in user of a freet or an
\* upvote that exists and has another author.
NonOwnerDelete ==
  \/ /\ req'.op = "DELETE /freets/:id"
     /\ req'.session # undefined
     /\ ObjectId(req'.freetId) \in DOMAIN freets
     /\ freets[ObjectId(req'.freetId)].authorId # ObjectId(req'.session)
  \/ /\ req'.op = "DELETE /upvotes/:id"
     /\ req'.session # undefined
     /\ ObjectId(req'.upvoteId) \in DOMAIN upvotes
     /\ upvotes[ObjectId(req'.upvoteId)].authorId # ObjectId(req'.session)

\* C8: a delete of a freet or an upvote by a logged-in user who is not its
\* author gets an error response and leaves the freets, the Upvote records and
\* every user's list unchanged.
C8_NonOwnerDeleteRejected ==
  [][NonOwnerDelete
     => (/\ res'.status >= 400
         /\ freets' = freets
         /\ upvotes' = upvotes
         /\ users' = users)]_vars

C8_Witness ==
  /\ req.op = "DELETE /upvotes/:id"
  /\ req.session # undefined
  /\ ObjectId(req.upvoteId) \in DOMAIN upvotes
  /\ upvotes[ObjectId(req.upvoteId)].authorId # ObjectId(req.session)
  /\ res.status = 400

\* C9: POST /upvotes/F by a logged-in user u with no Upvote record on the
\* existing freet F is answered 201, adds exactly one Upvote record (u, F),
\* appends F's id once to u's list and changes nothing else.
C9_UpvoteCreationEffect ==
  [][(/\ req'.op = "POST /upvotes/:id"
      /\ req'.session # undefined
      /\ ObjectId(req'.freetId) \in DOMAIN freets
      /\ UpvotesOf(ObjectId(req'.session), ObjectId(req'.freetId)) = {})
     => LET u == ObjectId(req'.session)
            f == ObjectId(req'.freetId)
        IN /\ res'.status = 201
           /\ \E v \in DOMAIN upvotes' \ DOMAIN upvotes :
                /\ DOMAIN upvotes' = DOMAIN upvotes \cup {v}
                /\ upvotes'[v] = [freetId |-> f, authorId |-> u]
           /\ \A w \in DOMAIN upvotes : upvotes'[w] = upvotes[w]
           /\ users' = [users EXCEPT ![u].upvotedFreets = Append(@, req'.freetId)]
           /\ freets' = freets]_vars

C9_Witness ==
  /\ req.op = "POST /upvotes/:id"
  /\ res.status = 201
  /\ Cardinality(UpvotesOf(ObjectId(req.session), ObjectId(req.freetId))) = 1
  /\ Occurrences(users[ObjectId(req.session)].upvotedFreets, req.freetId) = 1

\* C10: in every state where it is accepted, DELETE /upvotes/:id by the
\* upvote's author u deletes exactly that record and removes exactly one
\* occurrence of the upvoted freet's id from u's list, leaving every other
\* entry, every other user's list and every other record unchanged.
C10_UpvoteDeletionEffect ==
  [][(/\ req'.op = "DELETE /upvotes/:id"
      /\ res'.status = 200
      /\ ObjectId(req'.upvoteId) \in DOMAIN upvotes)
     => LET v == ObjectId(req'.upvoteId)
            u == ObjectId(req'.session)
            f == toString(upvotes[v].freetId)
            list == users[u].upvotedFreets
        IN /\ upvotes' = [w \in DOMAIN upvotes \ {v} |-> upvotes[w]]
           /\ \E i \in 1..Len(list) :
                /\ list[i] = f
                /\ users' = [users EXCEPT ![u].upvotedFreets = RemoveAt(list, i)]]_vars

\* C13: POST /upvotes/:freetId runs its guards in the order logged in,
\* freet exists, not yet in the list: 403 without a session even for a missing
\* freet, then 404 for a missing freet, then 409 for a freet in the list; an
\* Upvote is created only when all three pass, and a rejected request leaves
\* the store unchanged.
C13_UpvoteGuardOrder ==
  [][req'.op = "POST /upvotes/:id"
     => LET auth == req'.session # undefined
            exists == ObjectId(req'.freetId) \in DOMAIN freets
            inList == /\ auth
                      /\ includes(users[ObjectId(req'.session)].upvotedFreets,
                                  req'.freetId)
        IN /\ ~auth => res'.status = 403
           /\ (auth /\ ~exists) => res'.status = 404
           /\ (auth /\ exists /\ inList) => res'.status = 409
           /\ (res'.status = 201 \/ upvotes' # upvotes)
                => (auth /\ exists /\ ~inList)
           /\ res'.status # 201
                => (users' = users /\ freets' = freets /\ upvotes' = upvotes)]_vars

C13_Witness ==
  /\ req.op = "POST /upvotes/:id"
  /\ req.session = undefined
  /\ ObjectId(req.freetId) \notin DOMAIN freets
  /\ res.status = 403

\* C14: DELETE /upvotes/:id of an existing upvote by a logged-in user who is
\* not its author is answered 403, and 404 is answered only when no upvote has
\* the id.
C14_NonAuthorDeleteStatus ==
  req.op = "DELETE /upvotes/:id"
  => /\ (/\ req.session # undefined
         /\ ObjectId(req.upvoteId) \in DOMAIN upvotes
         /\ upvotes[ObjectId(req.upvoteId)].authorId # ObjectId(req.session))
        => res.status = 403
     /\ (res.status = 404 /\ req.session # undefined)
        => ObjectId(req.upvoteId) \notin DOMAIN upvotes

\* list without the entries equal to x.
Without(list, x) == SelectSeq(list, LAMBDA e : e # x)

\* C20: a successful DELETE /freets/:id of freet F leaves every other freet,
\* every Upvote record of another freet and every entry other than F's id in
\* every user's list unchanged.
C20_FreetDeletionFrame ==
  [][(req'.op = "DELETE /freets/:id" /\ res'.status = 200)
     => LET f == ObjectId(req'.freetId)
        IN /\ \A g \in DOMAIN freets \ {f} :
                g \in DOMAIN freets' /\ freets'[g] = freets[g]
           /\ \A v \in DOMAIN upvotes :
                upvotes[v].freetId # f
                  => (v \in DOMAIN upvotes' /\ upvotes'[v] = upvotes[v])
           /\ \A u \in DOMAIN users :
                Without(users'[u].upvotedFreets, req'.freetId)
                  = Without(users[u].upvotedFreets, req'.freetId)]_vars

\* C12: GET /upvotes?freetId=F without an author parameter returns exactly the
\* Upvote records on freet F, GET /upvotes?author=U exactly the records
\* authored by U, and only GET /upvotes with neither parameter returns all
\* upvotes.
C12_UpvoteListing ==
  (req.op = "GET /upvotes" /\ res.status = 200)
  => /\ (req.author = undefined /\ req.freetId # undefined)
          => res.upvotes = {v \in DOMAIN upvotes :
                              upvotes[v].freetId = ObjectId(req.freetId)}
     /\ req.author # undefined
          => res.upvotes = {v \in DOMAIN upvotes :
                              users[upvotes[v].authorId].username = req.author}
     /\ (req.author = undefined /\ req.freetId = undefined)
          => res.upvotes = DOMAIN upvotes

\* C11: after UpvoteCollection.deleteManyByAuthorId(u) no Upvote record has
\* author u and, if u still exists, u's upvotedFreets list is empty; the
\* Upvote records of other authors and the lists of other users are unchanged.
C11_UserDeletionCascade ==
  [][req'.op = "UpvoteCollection.deleteManyByAuthorId"
     => LET u == ObjectId(req'.session)
        IN /\ \A v \in DOMAIN upvotes' : upvotes'[v].authorId # u
           /\ u \in DOMAIN users' => users'[u].upvotedFreets = <<>>
           /\ \A v \in DOMAIN upvotes :
                upvotes[v].authorId # u
                  => (v \in DOMAIN upvotes' /\ upvotes'[v] = upvotes[v])
           /\ \A w \in DOMAIN users \ {u} :
                w \in DOMAIN users' /\ users'[w] = users[w]]_vars

\* deleteManyByAuthorId(u) has just removed a record of u, who still exists,
\* while another user keeps a record and a list entry.
C11_Witness ==
  /\ req.op = "UpvoteCollection.deleteManyByAuthorId"
  /\ ObjectId(req.session) \in DOMAIN users
  /\ Cardinality(DOMAIN upvotes) < nextUpvoteId - 1
  /\ \E w \in DOMAIN users \ {ObjectId(req.session)} :
       /\ users[w].upvotedFreets # <<>>
       /\ \E v \in DOMAIN upvotes : upvotes[v].authorId = w

\* C15: UserCollection.addOne sets underage to (age at sign-up < 18) and no
\* later operation changes it; updateOne changes only the password and the
\* username that were supplied and leaves underage, birthday, dateJoined and
\* upvotedFreets of the user, and every other user, unchanged.
C15_UnderageFixedAtCreation ==
  [][/\ \A u \in DOMAIN users' \ DOMAIN users :
          users'[u].underage
            = (calculateAge(users'[u].dateJoined, users'[u].birthday) < AdultAge)
     /\ \A u \in DOMAIN users \cap DOMAIN users' :
          /\ users'[u].underage = users[u].underage
          /\ users'[u].birthday = users[u].birthday
          /\ users'[u].dateJoined = users[u].dateJoined
     /\ req'.op = "PUT /users"
          => LET u == ObjectId(req'.session)
                 d == req'.userDetails
             IN /\ DOMAIN users' = DOMAIN users
                /\ users'[u].upvotedFreets = users[u].upvotedFreets
                /\ users'[u].password
                     = IF d.password # undefined THEN d.password
                                                 ELSE users[u].password
                /\ users'[u].username
                     = IF d.username # undefined THEN d.username
                                                 ELSE users[u].username
                /\ \A w \in DOMAIN users \ {u} : users'[w] = users[w]
                /\ freets' = freets
                /\ upvotes' = upvotes]_vars

\* An underage user with a list entry has just changed only their username.
C15_Witness ==
  /\ req.op = "PUT /users"
  /\ req.userDetails.password = undefined
  /\ req.userDetails.username # undefined
  /\ LET user == users[ObjectId(req.session)]
     IN /\ user.username = req.userDetails.username
        /\ user.password = Password
        /\ user.underage
        /\ user.upvotedFreets # <<>>

RoundTrip(requester(_)) ==
  /\ (req'.op = "POST /freets" /\ res'.status = 201)
       => \E f \in res'.freets :
            /\ f \notin DOMAIN freets
            /\ freets'[f].content = req'.content
            /\ freets'[f].authorId = ObjectId(req'.session)
  /\ \A f \in DOMAIN freets \cap DOMAIN freets' :
       /\ freets'[f].content = freets[f].content
       /\ freets'[f].authorId = freets[f].authorId
  /\ (/\ req'.op = "GET /freets/:id"
      /\ ObjectId(req'.freetId) \in DOMAIN freets
      /\ req'.session = toString(freets[ObjectId(req'.freetId)].authorId)
      /\ requester(users[ObjectId(req'.session)]))
       => /\ res'.status = 200
          /\ res'.freet.content = freets[ObjectId(req'.freetId)].content
          /\ res'.freet.author = users[ObjectId(req'.session)].username

AnyUser(user) == TRUE

NotUnderage(user) == ~user.underage

\* C17 as stated: for every logged-in user u and valid content c, POST /freets
\* with c followed, with no delete in between, by GET /freets/:id of the
\* created id by u returns a freet with content c and author u.
C17_RoundTrip_AnyUser == [][RoundTrip(AnyUser)]_vars

\* C17: for every logged-in user u who is not underage and every valid
\* content c, POST /freets with c followed, with no delete in between, by
\* GET /freets/:id of the created id by u returns a freet with content c and
\* author u.
C17_RoundTrip == [][RoundTrip(NotUnderage)]_vars

\* An adult has just fetched their own padded, self-flagged freet.
C17_Witness ==
  /\ req.op = "GET /freets/:id"
  /\ res.status = 200
  /\ ObjectId(req.freetId) \in DOMAIN freets
  /\ req.session = toString(freets[ObjectId(req.freetId)].authorId)
  /\ res.freet.content = <<" ", "h", "i", " ">>
  /\ res.freet.selfFlagged

\* C18: every failed request of the component sets an error alert keyed by
\* the error and a timer that removes it, and an alert is not removed before
\* the timer of the failure that put it on display has fired: while that timer
\* is pending, its key is in this.alerts.
C18_AlertKeptUntilOwnTimer ==
  \A i \in 1..Len(timers) :
    timers[i].displayed => timers[i].key \in DOMAIN alerts

\* C19: the refresh commit and then the success callback run only when fetch
\* answered ok, in that order; while the answer is awaited nothing has run, and
\* a response that is not ok ends with neither of them and with exactly one
\* error alert set and one timer started.
C19_SuccessFailureOrdering ==
  [][\A p \in 1..MaxRequests :
       LET before == requests[p]
           after == requests'[p]
       IN /\ after.log \in {<<>>, <<Refresh(after.method), "success alert">>,
                            <<"error alert">>}
          /\ after.pc \in {"idle", "fetch", "r.json"} => after.log = <<>>
          /\ (after.log # before.log /\ after.log # <<"error alert">>)
               => before.pc = "fetch"
          /\ (before.pc = "r.json" /\ after.pc = "done")
               => /\ after.log = <<"error alert">>
                  /\ Len(timers') = Len(timers) + 1
                  /\ timers'[Len(timers')].key \in DOMAIN alerts'
                  /\ Cardinality(DOMAIN alerts' \ DOMAIN alerts) <= 1
                  /\ DOMAIN alerts \subseteq DOMAIN alerts']_vars

\* One request has succeeded and another has failed on a response that was
\* not ok, its alert still on display.
C19_Witness ==
  \E p, q \in 1..MaxRequests :
    /\ requests[p].log = <<"refreshFreets", "success alert">>
    /\ requests[q].log = <<"error alert">>
    /\ requests[q].method = "requestUpvote"
    /\ "Error: [object Object]" \in DOMAIN alerts

\* No request of the interleaved model is running.
NoneInFlight == \A p \in 1..MaxInFlight : calls[p].pc \in {"idle", "done", "failed"}

\* C21: whenever no request is in flight, every Upvote record references a
\* freet that exists, also after a POST /upvotes/:freetId was interleaved,
\* store access by store access, with a DELETE /freets/:freetId of the same
\* freet by its author.
C21_NoDanglingUpvotes ==
  NoneInFlight => \A v \in DOMAIN upvotes : upvotes[v].freetId \in DOMAIN freets

\* C22: a successful POST /upvotes/F by u appends F to u's list and adds one
\* Upvote record; a successful DELETE of that upvote right after it puts u's
\* list and the Upvote records back to what they were before the POST, and a
\* further POST /upvotes/F by u then passes every guard (201, not 409).
C22_UpvoteRoundTrip ==
  [][/\ (req'.op = "POST /upvotes/:id" /\ res'.status = 201)
          => LET u == ObjectId(req'.session)
             IN /\ ~includes(users[u].upvotedFreets, req'.freetId)
                /\ users' = [users EXCEPT ![u].upvotedFreets =
                               Append(@, req'.freetId)]
                /\ DOMAIN upvotes' = DOMAIN upvotes \cup {nextUpvoteId}
                /\ nextUpvoteId \notin DOMAIN upvotes
                /\ \A w \in DOMAIN upvotes : upvotes'[w] = upvotes[w]
                /\ nextUpvoteId' = nextUpvoteId + 1
     /\ (/\ req.op = "POST /upvotes/:id"
         /\ res.status = 201
         /\ req'.op = "DELETE /upvotes/:id"
         /\ req'.session = req.session
         /\ req'.upvoteId = toString(nextUpvoteId - 1)
         /\ res'.status = 200)
          => LET u == ObjectId(req.session)
                 list == users[u].upvotedFreets
                 created == nextUpvoteId - 1
             IN /\ users' = [users EXCEPT ![u].upvotedFreets =
                               SubSeq(list, 1, Len(list) - 1)]
                /\ upvotes' = [w \in DOMAIN upvotes \ {created} |-> upvotes[w]]
                /\ freets' = freets
                /\ req.session # undefined
                /\ ObjectId(req.freetId) \in DOMAIN freets'
                /\ ~includes(users'[u].upvotedFreets, req.freetId)]_vars

\* The newest upvote has just been deleted by its author, whose list and the
\* Upvote records still hold an older upvote.
C22_Witness ==
  /\ req.op = "DELETE /upvotes/:id"
  /\ res.status = 200
  /\ req.upvoteId = toString(nextUpvoteId - 1)
  /\ users[ObjectId(req.session)].upvotedFreets # <<>>
  /\ \E w \in DOMAIN upvotes : upvotes[w].authorId = ObjectId(req.session)

\* C23: every request to the freet and upvote routers, with or without path
\* id and query parameters, gets exactly one response from the chain of guards
\* and handlers of the registrations that match it.
C23_ExactlyOneResponse ==
  \A r \in RouteRequests : Len(Responses(r)) = 1

\* A request without path id was rejected once, while in the same store GET
\* /freets/ is answered by the '/' registration although the first handler of
\* '/:freetId?' would neither respond nor call next for it.
C23_Witness ==
  LET get == Request("GET /freets", req.session, undefined, undefined,
                     undefined, undefined)
  IN /\ req.op = "DELETE /upvotes/:id"
     /\ req.upvoteId = undefined
     /\ req.session # undefined
     /\ res.status = 404
     /\ Responses(req) = <<404>>
     /\ upvotes # <<>>
     /\ Responses(get) = <<200>>
     /\ RunStack(FreetRegistrations[2].stack, get) = Neither

====
